---------------------------- MODULE Spec2Model ----------------------------
(* Model of the "PP" wire-format codec of src/main.rs: MsgType, Flags,      *)
(* FrameHeaderV1::encode/decode and FrameV1::encode/decode.                 *)
(*                                                                          *)
(* Bytes are naturals 0..255.  A u64 is kept at full width as four 16-bit   *)
(* limbs, least significant limb first (TLC's integers are 32 bits wide),   *)
(* so to_be_bytes / from_be_bytes are real conversions.  Rust byte slices   *)
(* are 0-based; sequences here are 1-based, hence the index helpers.        *)
EXTENDS Naturals, Sequences, FiniteSets

VARIABLES pc, bits, val, input, out, res, ack

vars == <<pc, bits, val, input, out, res, ack>>

-----------------------------------------------------------------------------
(* Bounds of the model *)

\* longest frame body / longest run of trailing bytes after a header
MaxBody == 2

-----------------------------------------------------------------------------
(* Program constants *)

\* const MAGIC: [u8; 2] = *b"PP"
MAGIC == <<80, 80>>

VERSION_V1 == 1

HEADER_LEN_V1 == 21

\* Flags::ACK_REQUIRED = 0b0000_0001
ACK_REQUIRED == 1

\* the literal 0b1111_1110 of Flags::new
RESERVED_MASK == 254

Byte == 0..255

-----------------------------------------------------------------------------
(* Result / Option values *)

Ok(v) == [tag |-> "Ok", val |-> v]

Err(e) == [tag |-> "Err", err |-> e]

\* an out-of-range index or slice aborts the call
Panic == [tag |-> "Panic"]

None == [tag |-> "None"]

Some(v) == [tag |-> "Some", val |-> v]

(* enum DecodeError *)
TooShort == [kind |-> "TooShort"]

BadMagic == [kind |-> "BadMagic"]

BadVersion(v) == [kind |-> "BadVersion", byte |-> v]

UnknownMsgType(v) == [kind |-> "UnknownMsgType", byte |-> v]

ReservedFlags(b) == [kind |-> "ReservedFlags", byte |-> b]

BadDeviceIdBytes == [kind |-> "BadDeviceIdBytes"]

BadCounterBytes == [kind |-> "BadCounterBytes"]

-----------------------------------------------------------------------------
(* enum MsgType *)

MsgType == {"Event", "Command", "Ack", "Error"}

\* faulty variant: Ack and Error swap their tags
MsgTypeAsU8Swapped(t) ==
    CASE t = "Event" -> 1
      [] t = "Command" -> 2
      [] t = "Ack" -> 4
      [] t = "Error" -> 3

\* `self.msg_type as u8` with #[repr(u8)]
MsgTypeAsU8(t) ==
    CASE t = "Event" -> 1
      [] t = "Command" -> 2
      [] t = "Ack" -> 3
      [] t = "Error" -> 4

\* faulty variant: tag 0x00 is coerced to Event instead of rejected
MsgTypeFromU8Lenient(v) ==
    CASE v = 1 -> Some("Event")
      [] v = 2 -> Some("Command")
      [] v = 3 -> Some("Ack")
      [] v = 4 -> Some("Error")
      [] v = 0 -> Some("Event")
      [] OTHER -> None

\* MsgType::from_u8
MsgTypeFromU8(v) ==
    CASE v = 1 -> Some("Event")
      [] v = 2 -> Some("Command")
      [] v = 3 -> Some("Ack")
      [] v = 4 -> Some("Error")
      [] OTHER -> None

-----------------------------------------------------------------------------
(* struct Flags(u8) *)

RECURSIVE BitAndN(_, _, _)
\* bitwise AND of the low n bits of a and b
BitAndN(a, b, n) ==
    IF n = 0 THEN 0
    ELSE ((a % 2) * (b % 2)) + 2 * BitAndN(a \div 2, b \div 2, n - 1)

\* u8 & u8
BitAnd(a, b) == BitAndN(a, b, 8)

\* faulty variant: the mask forgets reserved bit 7
FlagsNewMask7F(b) ==
    IF BitAnd(b, 126) # 0 THEN Err(ReservedFlags(b))
    ELSE Ok([bits |-> b])

\* Flags::new
FlagsNew(b) ==
    IF BitAnd(b, RESERVED_MASK) # 0 THEN Err(ReservedFlags(b))
    ELSE Ok([bits |-> b])

\* Flags::bits
FlagsBits(f) == f.bits

\* Flags::ack_required
FlagsAckRequired(f) == BitAnd(f.bits, ACK_REQUIRED) # 0

-----------------------------------------------------------------------------
(* u64 as four 16-bit limbs, least significant first *)

\* the u64 whose value is the natural n < 2^31
U64(n) == <<n % 65536, n \div 65536, 0, 0>>

\* faulty variant: to_le_bytes
U64ToLeBytes(c) ==
    << c[1] % 256, c[1] \div 256, c[2] % 256, c[2] \div 256,
       c[3] % 256, c[3] \div 256, c[4] % 256, c[4] \div 256 >>

\* u64::to_be_bytes: most significant byte first
U64ToBeBytes(c) ==
    << c[4] \div 256, c[4] % 256, c[3] \div 256, c[3] % 256,
       c[2] \div 256, c[2] % 256, c[1] \div 256, c[1] % 256 >>

\* faulty variant: from_le_bytes
U64FromLeBytes(b) ==
    << b[2] * 256 + b[1], b[4] * 256 + b[3],
       b[6] * 256 + b[5], b[8] * 256 + b[7] >>

\* u64::from_be_bytes
U64FromBeBytes(b) ==
    << b[7] * 256 + b[8], b[5] * 256 + b[6],
       b[3] * 256 + b[4], b[1] * 256 + b[2] >>

-----------------------------------------------------------------------------
(* slices *)

\* input[lo..hi]: panics unless lo <= hi <= len
SliceRange(s, lo, hi) ==
    IF lo <= hi /\ hi <= Len(s) THEN Ok(SubSeq(s, lo + 1, hi)) ELSE Panic

\* input[lo..]: panics unless lo <= len
SliceFrom(s, lo) ==
    IF lo <= Len(s) THEN Ok(SubSeq(s, lo + 1, Len(s))) ELSE Panic

\* input[i]: panics unless i < len
At(s, i) == IF i < Len(s) THEN Ok(s[i + 1]) ELSE Panic

\* <[u8; 8]>::try_from(&[u8]): fails unless the slice holds exactly 8 bytes
TryInto8(s) == IF Len(s) = 8 THEN Some(s) ELSE None

-----------------------------------------------------------------------------
(* struct FrameHeaderV1 *)

\* FrameHeaderV1::toggle: the field-by-field constructor
Toggle(version, msg_type, flags, device_id, counter) ==
    [version |-> version, msg_type |-> msg_type, flags |-> flags,
     device_id |-> device_id, counter |-> counter]

\* faulty variant: the version byte is written only for the supported version
HeaderEncodeDropsVersion(h) ==
    MAGIC \o (IF h.version = VERSION_V1 THEN <<h.version>> ELSE << >>)
          \o <<MsgTypeAsU8(h.msg_type)>> \o <<FlagsBits(h.flags)>>
          \o h.device_id \o U64ToBeBytes(h.counter)

\* FrameHeaderV1::encode
HeaderEncode(h) ==
    MAGIC \o <<h.version>> \o <<MsgTypeAsU8(h.msg_type)>>
          \o <<FlagsBits(h.flags)>> \o h.device_id
          \o U64ToBeBytes(h.counter)

\* faulty variant: the device id range is one byte short
DeviceIdSliceShort(s) == SliceRange(s, 5, 12)

\* input[5..13]
DeviceIdSlice(s) == SliceRange(s, 5, 13)

\* input[13..21]
CounterSlice(s) == SliceRange(s, 13, 21)

\* FrameHeaderV1::decode, from the device id extraction on
HeaderDecodeTail(s, version, msg_type, flags) ==
    LET d == DeviceIdSlice(s) IN
    IF d.tag = "Panic" THEN Panic
    ELSE LET device_id == TryInto8(d.val) IN
    IF device_id.tag = "None" THEN Err(BadDeviceIdBytes)
    ELSE LET c == CounterSlice(s) IN
    IF c.tag = "Panic" THEN Panic
    ELSE LET counter_bytes == TryInto8(c.val) IN
    IF counter_bytes.tag = "None" THEN Err(BadCounterBytes)
    ELSE Ok(Toggle(version, msg_type, flags, device_id.val,
                   U64FromBeBytes(counter_bytes.val)))

\* faulty variant: the flags byte is validated before the type tag
HeaderDecodeFlagsFirst(s) ==
    IF Len(s) < HEADER_LEN_V1 THEN Err(TooShort)
    ELSE LET magic == SliceRange(s, 0, 2) IN
    IF magic.tag = "Panic" THEN Panic
    ELSE IF magic.val # MAGIC THEN Err(BadMagic)
    ELSE LET version == At(s, 2) IN
    IF version.tag = "Panic" THEN Panic
    ELSE IF version.val # VERSION_V1 THEN Err(BadVersion(version.val))
    ELSE LET flags_raw == At(s, 4) IN
    IF flags_raw.tag = "Panic" THEN Panic
    ELSE LET flags == FlagsNew(flags_raw.val) IN
    IF flags.tag = "Err" THEN flags
    ELSE LET msg_raw == At(s, 3) IN
    IF msg_raw.tag = "Panic" THEN Panic
    ELSE LET msg_type == MsgTypeFromU8(msg_raw.val) IN
    IF msg_type.tag = "None" THEN Err(UnknownMsgType(msg_raw.val))
    ELSE HeaderDecodeTail(s, version.val, msg_type.val, flags.val)

\* FrameHeaderV1::decode
HeaderDecode(s) ==
    IF Len(s) < HEADER_LEN_V1 THEN Err(TooShort)
    ELSE LET magic == SliceRange(s, 0, 2) IN
    IF magic.tag = "Panic" THEN Panic
    ELSE IF magic.val # MAGIC THEN Err(BadMagic)
    ELSE LET version == At(s, 2) IN
    IF version.tag = "Panic" THEN Panic
    ELSE IF version.val # VERSION_V1 THEN Err(BadVersion(version.val))
    ELSE LET msg_raw == At(s, 3) IN
    IF msg_raw.tag = "Panic" THEN Panic
    ELSE LET msg_type == MsgTypeFromU8(msg_raw.val) IN
    IF msg_type.tag = "None" THEN Err(UnknownMsgType(msg_raw.val))
    ELSE LET flags_raw == At(s, 4) IN
    IF flags_raw.tag = "Panic" THEN Panic
    ELSE LET flags == FlagsNew(flags_raw.val) IN
    IF flags.tag = "Err" THEN flags
    ELSE HeaderDecodeTail(s, version.val, msg_type.val, flags.val)

-----------------------------------------------------------------------------
(* struct FrameV1 *)

\* faulty variant: the body is appended in reverse order
FrameEncodeReversedBody(f) ==
    HeaderEncode(f.header)
        \o [i \in 1..Len(f.body) |-> f.body[Len(f.body) + 1 - i]]

\* FrameV1::encode
FrameEncode(f) == HeaderEncode(f.header) \o f.body

\* faulty variant: the body is sliced before the header is decoded
FrameDecodeSlicesFirst(s) ==
    LET body == SliceFrom(s, HEADER_LEN_V1) IN
    IF body.tag = "Panic" THEN Panic
    ELSE LET header == HeaderDecode(s) IN
    IF header.tag # "Ok" THEN header
    ELSE Ok([header |-> header.val, body |-> body.val])

\* FrameV1::decode
FrameDecode(s) ==
    LET header == HeaderDecode(s) IN
    IF header.tag # "Ok" THEN header
    ELSE LET body == SliceFrom(s, HEADER_LEN_V1) IN
    IF body.tag = "Panic" THEN Panic
    ELSE Ok([header |-> header.val, body |-> body.val])

-----------------------------------------------------------------------------
(* The values the calls are made with *)

\* the Flags values a caller can hold: those Flags::new hands out
LiveFlags == { FlagsNew(b).val : b \in { x \in Byte : FlagsNew(x).tag = "Ok" } }

\* version fields of constructed headers (encode does not check the version)
HeaderVersions == {0, VERSION_V1, 2}

\* "ABCDEFGH", "DEV00001"
DeviceIds ==
    { <<65, 66, 67, 68, 69, 70, 71, 72>>, <<68, 69, 86, 48, 48, 48, 48, 49>> }

\* 999, 123456, 0x0102030405060708, u64::MAX
Counters ==
    { U64(999), U64(123456), <<1800, 1286, 772, 258>>,
      <<65535, 65535, 65535, 65535>> }

BodyBytes == {1, 255}

RECURSIVE SeqsUpTo(_, _)
\* the sequences over S of length at most n
SeqsUpTo(S, n) ==
    IF n = 0 THEN { << >> }
    ELSE LET shorter == SeqsUpTo(S, n - 1) IN
         shorter \cup { Append(q, x) : q \in shorter, x \in S }

Bodies == SeqsUpTo(BodyBytes, MaxBody)

Headers ==
    { Toggle(v, t, fl, d, c) :
        v \in HeaderVersions, t \in MsgType, fl \in LiveFlags,
        d \in DeviceIds, c \in Counters }

Frames == { [header |-> h, body |-> b] : h \in Headers, b \in Bodies }

\* "PP", "XY", and one wrong byte on either side
MagicBytes == { <<80, 80>>, <<88, 89>>, <<80, 89>>, <<0, 80>> }

VersionBytes == {0, 1, 2}

TypeBytes == {0, 1, 2, 3, 4, 5, 153}

FlagBytes == {0, 1, 2, 3, 128, 254, 255}

CounterBytes ==
    { <<0, 0, 0, 0, 0, 1, 226, 64>>, <<1, 2, 3, 4, 5, 6, 7, 8>>,
      <<255, 255, 255, 255, 255, 255, 255, 255>> }

\* inputs of 21 bytes or more: a header-shaped prefix and trailing bytes
LongInputs ==
    { m \o <<v, t, fl>> \o d \o c \o b :
        m \in MagicBytes, v \in VersionBytes, t \in TypeBytes,
        fl \in FlagBytes, d \in DeviceIds, c \in CounterBytes, b \in Bodies }

\* inputs of fewer than 21 bytes: every proper prefix of a header-shaped input
ShortInputs ==
    { SubSeq(m \o <<v, t, fl>> \o <<65, 66, 67, 68, 69, 70, 71, 72>>
               \o <<0, 0, 0, 0, 0, 1, 226, 64>>, 1, n) :
        m \in MagicBytes, v \in VersionBytes, t \in TypeBytes,
        fl \in FlagBytes, n \in 0..(HEADER_LEN_V1 - 1) }

\* the encoded header of main (Event, ACK_REQUIRED, "DEV00001", 42), and the
\* same bytes with version, type and flags all invalid
SweepBases ==
    { <<80, 80, 1, 1, 1, 68, 69, 86, 48, 48, 48, 48, 49,
        0, 0, 0, 0, 0, 0, 0, 42>>,
      <<80, 80, 2, 153, 254, 68, 69, 86, 48, 48, 48, 48, 49,
        0, 0, 0, 0, 0, 0, 0, 42>> }

\* inputs with one byte, at any offset of the header, set to any value
SweepInputs ==
    { [base EXCEPT ![p + 1] = b] :
        base \in SweepBases, p \in 0..(HEADER_LEN_V1 - 1), b \in Byte }

DecodeInputs == LongInputs \cup ShortInputs \cup SweepInputs

-----------------------------------------------------------------------------
(* The calls *)

Init ==
    /\ pc = "idle"
    /\ bits = 0
    /\ val = None
    /\ input = << >>
    /\ out = << >>
    /\ res = None
    /\ ack = FALSE

\* Flags::new(b)
CallFlagsNew ==
    /\ pc = "idle"
    /\ \E b \in Byte :
        /\ pc' = "flags_new"
        /\ bits' = b
        /\ res' = FlagsNew(b)
        /\ val' = None
        /\ input' = << >>
        /\ out' = << >>
        /\ ack' = FALSE

\* f.ack_required() on the Flags value Flags::new returned
CallAckRequired ==
    /\ pc = "flags_new"
    /\ res.tag = "Ok"
    /\ pc' = "ack_required"
    /\ ack' = FlagsAckRequired(res.val)
    /\ UNCHANGED <<bits, val, input, out, res>>

\* h.encode()
CallHeaderEncode ==
    /\ pc = "idle"
    /\ \E h \in Headers :
        /\ pc' = "header_encode"
        /\ val' = h
        /\ out' = HeaderEncode(h)
        /\ bits' = 0
        /\ input' = << >>
        /\ res' = None
        /\ ack' = FALSE

\* FrameHeaderV1::decode(input)
CallHeaderDecode ==
    /\ pc = "idle"
    /\ \E i \in DecodeInputs :
        /\ pc' = "header_decode"
        /\ input' = i
        /\ res' = HeaderDecode(i)
        /\ bits' = 0
        /\ val' = None
        /\ out' = << >>
        /\ ack' = FALSE

\* parsed.flags.ack_required() on a decoded header
CallHeaderAckRequired ==
    /\ pc = "header_decode"
    /\ res.tag = "Ok"
    /\ pc' = "header_ack_required"
    /\ ack' = FlagsAckRequired(res.val.flags)
    /\ UNCHANGED <<bits, val, input, out, res>>

\* f.encode()
CallFrameEncode ==
    /\ pc = "idle"
    /\ \E f \in Frames :
        /\ pc' = "frame_encode"
        /\ val' = f
        /\ out' = FrameEncode(f)
        /\ bits' = 0
        /\ input' = << >>
        /\ res' = None
        /\ ack' = FALSE

\* FrameV1::decode(input)
CallFrameDecode ==
    /\ pc = "idle"
    /\ \E i \in DecodeInputs :
        /\ pc' = "frame_decode"
        /\ input' = i
        /\ res' = FrameDecode(i)
        /\ bits' = 0
        /\ val' = None
        /\ out' = << >>
        /\ ack' = FALSE

\* FrameHeaderV1::decode(&h.encode()), as in tests::roundtrip_header_v1
RoundTripHeader ==
    /\ pc = "header_encode"
    /\ pc' = "header_roundtrip"
    /\ input' = out
    /\ res' = HeaderDecode(out)
    /\ UNCHANGED <<bits, val, out, ack>>

\* FrameV1::decode(&f.encode()), as in main and tests::roundtrip_frame_with_body
RoundTripFrame ==
    /\ pc = "frame_encode"
    /\ pc' = "frame_roundtrip"
    /\ input' = out
    /\ res' = FrameDecode(out)
    /\ UNCHANGED <<bits, val, out, ack>>

\* a decoded header is encoded again
ReencodeHeader ==
    /\ pc = "header_decode"
    /\ res.tag = "Ok"
    /\ pc' = "header_reencode"
    /\ val' = res.val
    /\ out' = HeaderEncode(res.val)
    /\ UNCHANGED <<bits, input, res, ack>>

\* a decoded frame is encoded again
ReencodeFrame ==
    /\ pc = "frame_decode"
    /\ res.tag = "Ok"
    /\ pc' = "frame_reencode"
    /\ val' = res.val
    /\ out' = FrameEncode(res.val)
    /\ UNCHANGED <<bits, input, res, ack>>

\* the call has returned and its values are dropped: the codec keeps no state
Return ==
    /\ pc # "idle"
    /\ pc' = "idle"
    /\ bits' = 0
    /\ val' = None
    /\ input' = << >>
    /\ out' = << >>
    /\ res' = None
    /\ ack' = FALSE

Next ==
    \/ CallFlagsNew
    \/ CallAckRequired
    \/ CallHeaderEncode
    \/ CallHeaderDecode
    \/ CallHeaderAckRequired
    \/ CallFrameEncode
    \/ CallFrameDecode
    \/ RoundTripHeader
    \/ RoundTripFrame
    \/ ReencodeHeader
    \/ ReencodeFrame
    \/ Return

Spec == Init /\ [][Next]_vars

-----------------------------------------------------------------------------
(* Properties *)

\* the header of tests::roundtrip_header_v1 and of the spec's scenario
ScenarioHeader ==
    Toggle(VERSION_V1, "Command", [bits |-> 0],
           <<65, 66, 67, 68, 69, 70, 71, 72>>, U64(123456))

\* 50 50 01 02 00 41 42 43 44 45 46 47 48 00 00 00 00 00 01 E2 40
ScenarioBytes ==
    <<80, 80, 1, 2, 0, 65, 66, 67, 68, 69, 70, 71, 72,
      0, 0, 0, 0, 0, 1, 226, 64>>

\* C1: header round trip.  Decoding the bytes encode produced for a header
\* with the supported version succeeds and gives back a header equal to the
\* encoded one in every field.
C1_HeaderRoundTrip ==
    (pc = "header_roundtrip" /\ val.version = VERSION_V1) => res = Ok(val)

C1_Witness ==
    /\ pc = "header_roundtrip"
    /\ val = ScenarioHeader
    /\ res = Ok(ScenarioHeader)

\* C2: frame round trip.  Decoding the bytes encode produced for a frame
\* whose header has the supported version succeeds and gives back the same
\* header and the same body bytes in the same order, the empty body included.
C2_FrameRoundTrip ==
    (pc = "frame_roundtrip" /\ val.header.version = VERSION_V1)
        => /\ res = Ok(val)
           /\ res.val.body = val.body

C2_Witness ==
    /\ pc = "frame_roundtrip"
    /\ val.header.version = VERSION_V1
    /\ val.body = <<1, 255>>
    /\ res = Ok(val)

\* C3: ordered validation.  Header decode reports the error of the first
\* failing check in the order length, magic, version, type, flags; a later
\* violation never masks an earlier one and the carried byte is the
\* offending input byte.
C3_OrderedValidation ==
    pc = "header_decode" =>
        LET long == Len(input) >= 21
            magicOk == long /\ input[1] = 80 /\ input[2] = 80
            versionOk == magicOk /\ input[3] = 1
            typeOk == versionOk /\ input[4] \in 1..4
        IN  /\ ~long => res = Err(TooShort)
            /\ (long /\ ~magicOk) => res = Err(BadMagic)
            /\ (magicOk /\ ~versionOk) => res = Err(BadVersion(input[3]))
            /\ (versionOk /\ ~typeOk) => res = Err(UnknownMsgType(input[4]))
            /\ (typeOk /\ input[5] \div 2 # 0)
                   => res = Err(ReservedFlags(input[5]))

\* an unknown type and reserved flag bits at once: the type is reported
C3_Witness ==
    /\ pc = "header_decode"
    /\ Len(input) >= 21
    /\ SubSeq(input, 1, 5) = <<80, 80, 1, 153, 254>>
    /\ res = Err(UnknownMsgType(153))

\* C4: decode is all-or-nothing and yields only valid headers.  Header decode
\* returns Ok exactly when the input has 21 bytes or more, the magic, version
\* 0x01, a known type tag and a flags byte with bits 1-7 zero; a returned
\* header has version 0x01, a known type and no reserved flag bit; a failure
\* carries no header.
C4_DecodeAllOrNothing ==
    pc = "header_decode" =>
        /\ res.tag \in {"Ok", "Err"}
        /\ res.tag = "Ok" <=>
               /\ Len(input) >= 21
               /\ input[1] = 80 /\ input[2] = 80
               /\ input[3] = 1
               /\ input[4] \in {1, 2, 3, 4}
               /\ input[5] \div 2 = 0
        /\ res.tag = "Ok" =>
               /\ res.val.version = 1
               /\ res.val.msg_type \in {"Event", "Command", "Ack", "Error"}
               /\ res.val.flags.bits \div 2 = 0
        /\ res.tag = "Err" => DOMAIN res = {"tag", "err"}

C4_Witness ==
    /\ pc = "header_decode"
    /\ res.tag = "Ok"
    /\ res.val.msg_type = "Error"
    /\ res.val.flags.bits = 1

\* C5: wire layout of header encode.  The output is 0x50 0x50, the version,
\* the type tag (Event 1, Command 2, Ack 3, Error 4), the flags byte, the
\* eight device id bytes unchanged, then the counter as eight bytes, most
\* significant first; the scenario header encodes to the scenario bytes.
C5_WireLayout ==
    pc = "header_encode" =>
        /\ out[1] = 80 /\ out[2] = 80
        /\ out[3] = val.version
        /\ val.msg_type = "Event" => out[4] = 1
        /\ val.msg_type = "Command" => out[4] = 2
        /\ val.msg_type = "Ack" => out[4] = 3
        /\ val.msg_type = "Error" => out[4] = 4
        /\ out[5] = val.flags.bits
        /\ \A i \in 1..8 : out[5 + i] = val.device_id[i]
        /\ \A k \in 0..3 :
               /\ out[14 + 2 * k] \in Byte
               /\ out[15 + 2 * k] \in Byte
               /\ out[14 + 2 * k] * 256 + out[15 + 2 * k] = val.counter[4 - k]
        /\ val = ScenarioHeader => out = ScenarioBytes

C5_Witness ==
    /\ pc = "header_encode"
    /\ val = ScenarioHeader
    /\ out = ScenarioBytes

\* C6: length invariant and totality of encode.  Header encode yields exactly
\* 21 bytes for every header, whatever its version; frame encode yields
\* 21 + len(body) bytes: the header's 21 encoded bytes followed by the body
\* bytes unchanged and in order.
C6_EncodeLength ==
    /\ pc = "header_encode" => Len(out) = 21
    /\ pc = "frame_encode" =>
           /\ Len(out) = 21 + Len(val.body)
           /\ SubSeq(out, 1, 21) = HeaderEncode(val.header)
           /\ SubSeq(out, 22, Len(out)) = val.body

C6_Witness ==
    /\ pc = "frame_encode"
    /\ val.header.version # VERSION_V1
    /\ Len(val.body) > 0
    /\ Len(out) = 21 + Len(val.body)

\* C7: frame decode is header decode plus remainder.  Frame decode fails
\* exactly when header decode of the same input fails, with the very same
\* error and without a panic; otherwise its header is the decoded header and
\* its body is every input byte from offset 21 on, empty for a 21-byte input.
C7_FrameDecodeDelegates ==
    pc = "frame_decode" =>
        LET header == HeaderDecode(input) IN
        /\ res.tag # "Panic"
        /\ header.tag = "Err" <=> res.tag = "Err"
        /\ header.tag = "Err" => res = header
        /\ header.tag = "Ok" =>
               /\ res.tag = "Ok"
               /\ res.val.header = header.val
               /\ res.val.body = SubSeq(input, 22, Len(input))
               /\ Len(input) = 21 => res.val.body = << >>

C7_Witness ==
    /\ pc = "frame_decode"
    /\ Len(input) = 20
    /\ SubSeq(input, 1, 2) = <<88, 89>>
    /\ res = Err(TooShort)

\* the Flags values held anywhere in the current state
FlagsInState ==
    (IF pc \in {"flags_new", "ack_required"} /\ res.tag = "Ok"
        THEN {res.val} ELSE {})
    \cup (IF pc \in {"header_decode", "header_ack_required",
                     "header_roundtrip", "header_reencode"} /\ res.tag = "Ok"
             THEN {res.val.flags} ELSE {})
    \cup (IF pc \in {"frame_decode", "frame_roundtrip", "frame_reencode"}
                /\ res.tag = "Ok"
             THEN {res.val.header.flags} ELSE {})
    \cup (IF pc \in {"header_encode", "header_roundtrip", "header_reencode"}
             THEN {val.flags} ELSE {})
    \cup (IF pc \in {"frame_encode", "frame_roundtrip", "frame_reencode"}
             THEN {val.header.flags} ELSE {})

\* C8: Flags validated construction.  Flags::new(b) returns Ok with bits b
\* when b is 0 or 1 and ReservedFlags(b) otherwise; every Flags value that
\* exists has bits 1-7 zero; ack_required() is true exactly when bit 0 is
\* set.
C8_FlagsValidated ==
    /\ pc \in {"flags_new", "ack_required"} =>
           /\ bits \in {0, 1} => (res.tag = "Ok" /\ res.val.bits = bits)
           /\ bits \notin {0, 1} => res = Err(ReservedFlags(bits))
    /\ \A f \in FlagsInState : f.bits \in {0, 1}
    /\ pc = "ack_required" => (ack <=> res.val.bits % 2 = 1)
    /\ pc = "header_ack_required" => (ack <=> input[5] % 2 = 1)

C8_Witness ==
    /\ pc = "ack_required"
    /\ bits = 1
    /\ res.tag = "Ok"
    /\ ack

\* C9: the device id and counter extractions cannot fail.  Neither header
\* decode nor frame decode ever returns BadDeviceIdBytes or BadCounterBytes;
\* the only errors are TooShort, BadMagic, BadVersion, UnknownMsgType and
\* ReservedFlags.
C9_ExtractionsCannotFail ==
    (pc \in {"header_decode", "frame_decode", "header_roundtrip",
             "frame_roundtrip"} /\ res.tag = "Err")
        => /\ res.err.kind \notin {"BadDeviceIdBytes", "BadCounterBytes"}
           /\ res.err.kind \in {"TooShort", "BadMagic", "BadVersion",
                                "UnknownMsgType", "ReservedFlags"}

\* the length check has passed and both extractions have run
C9_Witness ==
    /\ pc = "frame_decode"
    /\ Len(input) = 21
    /\ res.tag = "Ok"
    /\ res.val.header.device_id = <<68, 69, 86, 48, 48, 48, 48, 49>>
    /\ res.val.header.counter = <<65535, 65535, 65535, 65535>>

\* C10: reverse round trip.  Encoding a decoded frame gives back the input
\* byte for byte; encoding a decoded header gives back the first 21 input
\* bytes; header decode depends on the first 21 bytes only.
C10_ReverseRoundTrip ==
    /\ pc = "frame_reencode" => out = input
    /\ pc = "header_reencode" => out = SubSeq(input, 1, 21)
    /\ (pc = "header_decode" /\ Len(input) >= 21)
           => res = HeaderDecode(SubSeq(input, 1, 21))

C10_Witness ==
    /\ pc = "frame_reencode"
    /\ Len(input) > 21
    /\ SubSeq(input, 14, 21) = <<1, 2, 3, 4, 5, 6, 7, 8>>
    /\ out = input

=============================================================================
